---------------------------- MODULE Spec2Model ----------------------------
(***************************************************************************)
(* State-machine model of the ContentGenerator React component             *)
(* (frontend/src/components/ContentGenerator.tsx): the generation request  *)
(* lifecycle (generateContent), the history cache (fetchSavedContents,     *)
(* loadFromHistory) and the user events that drive them.                   *)
(*                                                                         *)
(* Each async function is split at its await points: a request in flight   *)
(* is a record whose pc says which promise it is waiting for ("fetch" for  *)
(* `await fetch(...)`, "json" for `await response.json()`).  The network   *)
(* settles those promises in any order; the code that follows an await up  *)
(* to the next await (or to the end of the function) is one atomic step,   *)
(* as it is on the single-threaded event loop.  fetchSavedContents sets    *)
(* nothing and decides nothing between its two awaits, so a refresh in     *)
(* flight carries no pc: its response and body arrive in one step.         *)
(*                                                                         *)
(* A user event is handled with the state of the latest render: the state  *)
(* set in a click or key handler is rendered before the next event is      *)
(* dispatched, so the guards read the current loading and topic.           *)
(*                                                                         *)
(* The topic is a sequence of one-character strings so that emptiness      *)
(* (JavaScript truthiness) and whitespace-only are different predicates.   *)
(* Times are whole milliseconds; generationTime keeps the millisecond      *)
(* numerator of (Date.now() - startTime) / 1000.                           *)
(***************************************************************************)
EXTENDS Integers, Sequences, FiniteSets, TLC

\* Bounds of the model.
MaxGenerations == 2
MaxClock == 1

\* savedContents.slice(0, 5)
DisplayLimit == 5

VARIABLES
    topic,          \* useState('')      text of the topic input
    content,        \* useState('')      displayed markdown
    loading,        \* useState(false)
    error,          \* useState('')      displayed error text
    generationTime, \* useState(0)
    savedContents,  \* useState([])      history cache
    showHistory,    \* useState(false)   history panel open
    toast,          \* the latest notification handed to sonner's toast
    mounted,        \* whether the mount effect has run
    posts,          \* generateContent invocations suspended at an await
    gets,           \* fetchSavedContents invocations suspended at an await
    postsIssued,    \* number of POST /api/generate-content requests sent
    getsIssued,     \* number of GET /api/content requests sent
    lastApplied     \* the refresh whose data reached setSavedContents last

vars == <<topic, content, loading, error, generationTime, savedContents,
          showHistory, toast, mounted, posts, gets, postsIssued,
          getsIssued, lastApplied>>

-----------------------------------------------------------------------------
\* Values the user and the two endpoints can supply.

Whitespace == {" "}

\* what the user can type into the topic input
TopicInputs == {<<>>, <<" ">>, <<"a">>}

\* HistoryItem rows held by the service
Item1 == [id |-> 1, topic |-> <<"T">>, content |-> "C", created_at |-> 1]
Item2 == [id |-> 2, topic |-> <<"a">>, content |-> "# Hi", created_at |-> 2]

\* the `data` array of a successful GET /api/content
HistoryLists == {<<>>, <<Item1>>, <<Item2, Item1>>}

\* what Date.now() can return, in milliseconds
ClockReadings == 0..MaxClock

\* what Date.now() can return after it has returned t
LaterReadings(t) == t..MaxClock

\* HTTP statuses of a POST response; response.ok is 200..299
PostStatuses == {200, 500}

ResponseOk(status) == status >= 200 /\ status <= 299

\* parsed bodies of a 2xx POST response; message "" stands for a missing or
\* empty message (both are falsy in `data.message || ...`)
PostBodies ==
    {[status |-> "success", content |-> "# Hi", message |-> ""],
     [status |-> "error", content |-> "", message |-> "boom"],
     [status |-> "error", content |-> "", message |-> ""]}

\* parsed bodies of a GET response
GetBodies ==
    {[status |-> "success", data |-> d] : d \in HistoryLists}
        \cup {[status |-> "error", data |-> <<>>]}

\* what an awaited promise can reject with
\* fetch: TypeError on a network failure
NetworkError == [isError |-> TRUE, message |-> "Failed to fetch"]
\* response.json(): SyntaxError on a body that is not JSON
ParseError == [isError |-> TRUE, message |-> "Unexpected token"]

NoToast == [kind |-> "none", text |-> ""]
\* no refresh has replaced the cache yet
NoRefresh == [id |-> 0, data |-> <<>>, overtaken |-> FALSE]

-----------------------------------------------------------------------------
\* Pure helpers.

\* JavaScript truthiness of a string: non-empty
Truthy(s) == Len(s) > 0

\* s.trim() === ''
IsBlank(s) == \A i \in 1..Len(s) : s[i] \in Whitespace

Min(a, b) == IF a <= b THEN a ELSE b

\* the message without the interpolated status
RequestErrorMessageWithoutStatus(status) == "API request failed"

\* `API request failed with status ${response.status}`
RequestErrorMessage(status) ==
    "API request failed with status " \o ToString(status)

\* data.message without the fallback
ServiceErrorMessageRaw(data) == data.message

\* data.message || 'Unknown error occurred'
ServiceErrorMessage(data) ==
    IF data.message # "" THEN data.message ELSE "Unknown error occurred"

\* err instanceof Error ? err.message : 'Failed to generate content'
CatchMessage(err) ==
    IF err.isError THEN err.message ELSE "Failed to generate content"

\* new Error(msg)
NewError(msg) == [isError |-> TRUE, message |-> msg]

-----------------------------------------------------------------------------
Init ==
    /\ topic = <<>>
    /\ content = ""
    /\ loading = FALSE
    /\ error = ""
    /\ generationTime = 0
    /\ savedContents = <<>>
    /\ showHistory = FALSE
    /\ toast = NoToast
    /\ mounted = FALSE
    /\ posts = {}
    /\ gets = {}
    /\ postsIssued = 0
    /\ getsIssued = 0
    /\ lastApplied = NoRefresh


-----------------------------------------------------------------------------
\* fetchSavedContents, up to its first await: the GET is sent.

\* a call that sends nothing
fetchSkipped == UNCHANGED <<gets, getsIssued>>

\* fetch('http://localhost:8000/api/content')
fetchSavedContents ==
    /\ gets' = gets \cup {[id |-> getsIssued + 1]}
    /\ getsIssued' = getsIssued + 1

\* useEffect(() => { fetchSavedContents(); }, [fetchSavedContents])
Mount ==
    /\ ~mounted
    /\ mounted' = TRUE
    /\ fetchSavedContents
    /\ UNCHANGED <<topic, content, loading, error, generationTime,
                   savedContents, showHistory, toast, posts,
                   postsIssued, lastApplied>>

-----------------------------------------------------------------------------
\* User events.

\* onChange={(e) => setTopic(e.target.value)}
SetTopic(t) ==
    /\ mounted
    /\ t # topic
    /\ topic' = t
    /\ UNCHANGED <<content, loading, error, generationTime, savedContents,
                   showHistory, toast, mounted, posts, gets,
                   postsIssued, getsIssued, lastApplied>>

\* onClick={() => setShowHistory(!showHistory)}
ToggleHistory ==
    /\ mounted
    /\ showHistory' = ~showHistory
    /\ UNCHANGED <<topic, content, loading, error, generationTime,
                   savedContents, toast, mounted, posts, gets,
                   postsIssued, getsIssued, lastApplied>>

\* a guard that forgets the loading flag
GenerateAllowedIgnoringLoading == Truthy(topic)

\* the guard both triggers share: `!loading && topic` on Enter,
\* `disabled={loading || !topic}` on the button
GenerateAllowed == ~loading /\ Truthy(topic)

\* generateContent, up to `await fetch(...)`: the POST is sent with the
\* topic of the render the handler closed over.  contentAtCall and selected
\* are bookkeeping: the content displayed when the call was made, and whether
\* a history item was loaded while the request was in flight.  start is what
\* Date.now() returns.
generateContent(start) ==
    /\ loading' = TRUE
    /\ error' = ""
    /\ posts' = posts \cup {[id |-> postsIssued + 1, pc |-> "fetch",
                             topic |-> topic, startTime |-> start,
                             contentAtCall |-> content, selected |-> FALSE]}
    /\ postsIssued' = postsIssued + 1
    /\ UNCHANGED <<topic, content, generationTime, savedContents,
                   showHistory, toast, mounted, gets, getsIssued,
                   lastApplied>>

\* an invocation of generate: the handler runs only when the guard lets it
Invoke ==
    IF GenerateAllowed
    THEN /\ postsIssued < MaxGenerations
         /\ \E start \in ClockReadings : generateContent(start)
    ELSE UNCHANGED vars

\* <button onClick={generateContent} disabled={loading || !topic}>
ClickGenerate == mounted /\ Invoke

\* onKeyPress: e.key === 'Enter' && !loading && topic && generateContent()
KeyPressEnter == mounted /\ Invoke

\* setContent(item.content) with the value dropped
LoadedContentKept(item) == content

\* the content loadFromHistory displays
LoadedContent(item) == item.content

\* loadFromHistory(item)
loadFromHistory(item) ==
    /\ topic' = item.topic
    /\ content' = LoadedContent(item)
    /\ showHistory' = FALSE
    /\ toast' = [kind |-> "info", text |-> "Content loaded from history"]
    /\ posts' = {[p EXCEPT !.selected = TRUE] : p \in posts}
    /\ UNCHANGED <<loading, error, generationTime, savedContents, mounted,
                   gets, postsIssued, getsIssued, lastApplied>>

\* savedContents.slice(0, 5).map(item => <button onClick=loadFromHistory(item)>),
\* rendered only while showHistory
ClickHistoryItem(i) ==
    /\ mounted
    /\ showHistory
    /\ i \in 1..Min(DisplayLimit, Len(savedContents))
    /\ loadFromHistory(savedContents[i])

-----------------------------------------------------------------------------
\* generateContent after its awaits.

\* a finally block that leaves the flag as it is
FinallyLoadingKept == loading

\* finally { setLoading(false) }
FinallyLoading == FALSE

\* catch (err) { setError(...); toast.error(...) } finally { setLoading(false) }
Catch(p, err) ==
    /\ error' = CatchMessage(err)
    /\ toast' = [kind |-> "error", text |-> CatchMessage(err)]
    /\ loading' = FinallyLoading
    /\ posts' = posts \ {p}
    /\ UNCHANGED <<topic, content, generationTime, savedContents,
                   showHistory, mounted, gets, postsIssued, getsIssued,
                   lastApplied>>

\* `await fetch(...)` rejects
PostNetworkError(p) ==
    /\ p \in posts
    /\ p.pc = "fetch"
    /\ Catch(p, NetworkError)

\* `await fetch(...)` resolves with a response of the given status:
\* !response.ok throws, otherwise the body is awaited
PostResponse(p, status) ==
    /\ p \in posts
    /\ p.pc = "fetch"
    /\ IF ~ResponseOk(status)
       THEN Catch(p, NewError(RequestErrorMessage(status)))
       ELSE /\ posts' = (posts \ {p}) \cup {[p EXCEPT !.pc = "json"]}
            /\ UNCHANGED <<topic, content, loading, error, generationTime,
                           savedContents, showHistory, toast, mounted, gets, postsIssued, getsIssued, lastApplied>>

\* `await response.json()` rejects
PostBodyUnparsable(p) ==
    /\ p \in posts
    /\ p.pc = "json"
    /\ Catch(p, ParseError)

\* `await response.json()` resolves with data
PostBody(p, data) ==
    /\ p \in posts
    /\ p.pc = "json"
    /\ IF data.status = "success"
       THEN /\ content' = data.content
            /\ \E end \in LaterReadings(p.startTime) :
                  generationTime' = end - p.startTime
            /\ toast' = [kind |-> "success",
                         text |-> "Content generated successfully!"]
            /\ fetchSavedContents
            /\ loading' = FinallyLoading
            /\ posts' = posts \ {p}
            /\ UNCHANGED <<topic, error, savedContents, showHistory,
                           mounted, postsIssued, lastApplied>>
       ELSE Catch(p, NewError(ServiceErrorMessage(data)))

-----------------------------------------------------------------------------
\* fetchSavedContents after its awaits.

\* a refresh that appends what it fetched
CacheAppended(data) == savedContents \o data.data

\* a refresh that blanks the cache when the service reports no success
CacheClearedOnFailure(data) ==
    IF data.status = "success" THEN data.data ELSE <<>>

\* setSavedContents(data.data)
CacheReplaced(data) == data.data

\* if (data.status === 'success') { setSavedContents(data.data) }
CacheAfter(data) ==
    IF data.status = "success" THEN CacheReplaced(data) ELSE savedContents

\* catch (err) { console.error(...) }: the invocation ends, nothing is set
GetCaught(g) ==
    /\ gets' = gets \ {g}
    /\ UNCHANGED <<topic, content, loading, error, generationTime,
                   savedContents, showHistory, toast, mounted, posts,
                   postsIssued, getsIssued, lastApplied>>

\* `await fetch(...)` rejects
GetNetworkError(g) ==
    /\ g \in gets
    /\ GetCaught(g)

\* `await fetch(...)` resolves (the status is not looked at) and
\* `await response.json()` rejects
GetBodyUnparsable(g) ==
    /\ g \in gets
    /\ GetCaught(g)

\* `await fetch(...)` resolves and `await response.json()` resolves with
\* null: data.status throws
GetBodyNull(g) ==
    /\ g \in gets
    /\ GetCaught(g)

\* `await fetch(...)` resolves and `await response.json()` resolves with data
GetBody(g, data) ==
    /\ g \in gets
    /\ savedContents' = CacheAfter(data)
    /\ gets' = gets \ {g}
    /\ IF data.status = "success"
       THEN lastApplied' = [id |-> g.id, data |-> data.data,
                            overtaken |-> lastApplied.id > g.id]
       ELSE UNCHANGED lastApplied
    /\ UNCHANGED <<topic, content, loading, error, generationTime,
                   showHistory, toast, mounted, posts, postsIssued,
                   getsIssued>>

-----------------------------------------------------------------------------
Next ==
    \/ Mount
    \/ \E t \in TopicInputs : SetTopic(t)
    \/ ToggleHistory
    \/ ClickGenerate
    \/ KeyPressEnter
    \/ \E i \in 1..DisplayLimit : ClickHistoryItem(i)
    \/ \E p \in posts : PostNetworkError(p)
    \/ \E p \in posts, status \in PostStatuses : PostResponse(p, status)
    \/ \E p \in posts : PostBodyUnparsable(p)
    \/ \E p \in posts, data \in PostBodies : PostBody(p, data)
    \/ \E g \in gets : GetNetworkError(g)
    \/ \E g \in gets : GetBodyUnparsable(g)
    \/ \E g \in gets : GetBodyNull(g)
    \/ \E g \in gets, data \in GetBodies : GetBody(g, data)

Spec == Init /\ [][Next]_vars

\* The network answers every generation request in flight, and the event loop
\* runs the continuation of every settled promise.
PostSettles ==
    \E p \in posts :
        \/ PostNetworkError(p)
        \/ \E status \in PostStatuses : PostResponse(p, status)
        \/ PostBodyUnparsable(p)
        \/ \E data \in PostBodies : PostBody(p, data)

FairSpec == Spec /\ WF_vars(PostSettles)

-----------------------------------------------------------------------------
\* Steps the properties below speak about.

\* a user invocation of generate, by either trigger
GenerateInvoked == ClickGenerate \/ KeyPressEnter

\* request p ends with a non-2xx response of the given status
PostFailsWithStatus(p, status) ==
    PostResponse(p, status) /\ ~ResponseOk(status)

\* request p ends with a 2xx response whose body reports no success
PostFailsWithBody(p, data) ==
    PostBody(p, data) /\ data.status # "success"

\* request p ends with a 2xx response whose body reports success
PostSucceeds(p, data) ==
    PostBody(p, data) /\ data.status = "success"

\* request p ends in any failure
PostFails(p) ==
    \/ PostNetworkError(p)
    \/ PostBodyUnparsable(p)
    \/ \E status \in PostStatuses : PostFailsWithStatus(p, status)
    \/ \E data \in PostBodies : PostFailsWithBody(p, data)

\* refresh g ends in a failure
GetFails(g) ==
    \/ GetNetworkError(g)
    \/ GetBodyUnparsable(g)
    \/ GetBodyNull(g)
    \/ \E data \in GetBodies : GetBody(g, data) /\ data.status # "success"

-----------------------------------------------------------------------------
\* C1: at most one generation POST is in flight in every reachable state
\* (loading is true exactly while one is), and while loading is true an
\* invocation of generate by the button or by Enter changes nothing and
\* sends nothing.
C1_SingleFlight ==
    /\ [](Cardinality(posts) <= 1 /\ (loading <=> posts # {}))
    /\ [][loading /\ GenerateInvoked => UNCHANGED vars]_vars

\* generate is invoked while a request is in flight and the topic is filled
C1_Witness ==
    /\ loading
    /\ Cardinality(posts) = 1
    /\ Truthy(topic)
    /\ postsIssued < MaxGenerations

\* C2: for every empty or whitespace-only topic, an invocation of generate
\* sends no POST and leaves the displayed topic and content unchanged.
C2_BlankTopicIsNoOp ==
    [][IsBlank(topic) /\ GenerateInvoked =>
          /\ postsIssued' = postsIssued
          /\ posts' = posts
          /\ topic' = topic
          /\ content' = content]_vars

\* C3 as stated: after a non-2xx response the error is set and carries the
\* status code, and the displayed content is what it was before the generate
\* call.
C3_ContentAsBeforeCall ==
    [][\A p \in posts : \A status \in PostStatuses :
          PostFailsWithStatus(p, status) =>
              /\ error' # ""
              /\ error' = "API request failed with status " \o ToString(status)
              /\ content' = p.contentAtCall]_vars

\* C3 amended: after a non-2xx response the error is set and carries the
\* status code, and handling the response does not change the displayed
\* content; the content is what it was before the generate call unless a
\* history item was loaded while the request was in flight.
C3_ErrorKeepsContent ==
    [][\A p \in posts : \A status \in PostStatuses :
          PostFailsWithStatus(p, status) =>
              /\ error' # ""
              /\ error' = "API request failed with status " \o ToString(status)
              /\ content' = content
              /\ (~p.selected => content' = p.contentAtCall)]_vars

\* a 500 answered a request made while content was displayed
C3_Witness ==
    /\ error = "API request failed with status 500"
    /\ toast = [kind |-> "error", text |-> error]
    /\ content # ""
    /\ ~loading

\* C4 as stated: after a 2xx response whose body reports no success the
\* displayed error equals the service's message, whatever the message, and
\* the displayed content is what it was before the generate call.
C4_ErrorIsServiceMessage ==
    [][\A p \in posts : \A data \in PostBodies :
          PostFailsWithBody(p, data) =>
              /\ error' = data.message
              /\ content' = p.contentAtCall]_vars

\* C4 amended: after a 2xx response whose body reports no success the
\* displayed error equals the service's message when that message is not
\* empty and 'Unknown error occurred' when it is empty or missing; handling
\* the response does not change the displayed content, which is what it was
\* before the generate call unless a history item was loaded meanwhile.
C4_ErrorIsMessageOrDefault ==
    [][\A p \in posts : \A data \in PostBodies :
          PostFailsWithBody(p, data) =>
              /\ (data.message # "" => error' = data.message)
              /\ (data.message = "" => error' = "Unknown error occurred")
              /\ content' = content
              /\ (~p.selected => content' = p.contentAtCall)]_vars

\* the service's message is displayed next to content that was kept
C4_Witness ==
    /\ error = "boom"
    /\ toast = [kind |-> "error", text |-> "boom"]
    /\ content # ""
    /\ ~loading

\* C5: after a 2xx response whose body reports success the displayed content
\* is the response's content, the error is empty, loading is false and exactly
\* one history GET has been sent; a generation that fails sends none.
C5_SuccessOutcome ==
    [][\A p \in posts :
          /\ \A data \in PostBodies :
                PostSucceeds(p, data) =>
                    /\ content' = data.content
                    /\ error' = ""
                    /\ ~loading'
                    /\ getsIssued' = getsIssued + 1
                    /\ Cardinality(gets') = Cardinality(gets) + 1
                    /\ gets \subseteq gets'
          /\ PostFails(p) => (getsIssued' = getsIssued /\ gets' = gets)]_vars

\* a generation has succeeded and its refresh is in flight
C5_Witness ==
    /\ toast.kind = "success"
    /\ content = "# Hi"
    /\ error = ""
    /\ ~loading
    /\ \E g \in gets : g.id = getsIssued /\ g.id >= 2

\* C6: a history refresh that fails (network error, body that does not parse,
\* body that reports no success) leaves the cached items, the error, the
\* displayed content and the loading flag as they were, also when a
\* successful generation started it.
C6_FailedRefreshKeepsCache ==
    [][\A g \in gets :
          GetFails(g) =>
              /\ savedContents' = savedContents
              /\ error' = error
              /\ content' = content
              /\ loading' = loading]_vars

\* every refresh has ended, the one a successful generation started ended
\* without data, and the items of the mount refresh are still cached
C6_Witness ==
    /\ gets = {}
    /\ getsIssued = 2
    /\ lastApplied.id = 1
    /\ savedContents = <<Item1>>
    /\ content = "# Hi"

\* C7: loading a history item displays its topic and content, closes the
\* history panel, sends no request and leaves the cache, the loading flag and
\* the error as they were, in whatever state it happens.
C7_SelectIsLocal ==
    [][\A i \in 1..DisplayLimit :
          ClickHistoryItem(i) =>
              /\ topic' = savedContents[i].topic
              /\ content' = savedContents[i].content
              /\ ~showHistory'
              /\ postsIssued' = postsIssued
              /\ getsIssued' = getsIssued
              /\ gets' = gets
              /\ {p.id : p \in posts'} = {p.id : p \in posts}
              /\ savedContents' = savedContents
              /\ loading' = loading
              /\ error' = error]_vars

\* an item was loaded while a generation was in flight
C7_Witness ==
    /\ toast.kind = "info"
    /\ loading
    /\ topic = Item2.topic
    /\ content = Item2.content
    /\ ~showHistory

\* C8: every end of a generation request, failed or not, sets loading to
\* false, so under FairSpec loading always becomes false again; an invocation
\* of generate with a filled topic while nothing is loading clears the error
\* and sends one new POST with that topic; and a POST is sent only by a user
\* invocation.
C8_Retriable ==
    /\ [][\A p \in posts :
             (PostFails(p) \/ \E data \in PostBodies : PostSucceeds(p, data))
                 => ~loading']_vars
    /\ loading ~> ~loading
    /\ [][GenerateInvoked /\ ~loading /\ Truthy(topic) =>
             /\ loading'
             /\ error' = ""
             /\ postsIssued' = postsIssued + 1
             /\ \E p \in posts' :
                   p.id = postsIssued' /\ p.topic = topic /\ p.pc = "fetch"]_vars
    /\ [](mounted /\ ~loading /\ Truthy(topic) /\ postsIssued < MaxGenerations
             => ENABLED (GenerateInvoked /\ postsIssued' = postsIssued + 1))
    /\ [][postsIssued' # postsIssued => GenerateInvoked]_vars

\* a generation failed and the next invocation was accepted: a second request
\* is in flight and the error of the first is cleared
C8_Witness ==
    /\ toast.kind = "error"
    /\ postsIssued = 2
    /\ loading
    /\ error = ""
    /\ \E p \in posts : p.id = 2

\* C9: every refresh whose response reports success replaces the cache, so
\* the cache always equals the data of the successful response handled last,
\* whatever the order in which the refreshes were sent.
C9_LastResponseWins ==
    /\ savedContents = lastApplied.data
    /\ lastApplied.id <= getsIssued
    /\ \A g \in gets : g.id # lastApplied.id

\* overlapping refreshes have all ended, the one sent first answered last,
\* and the cache holds its data
C9_Witness ==
    /\ gets = {}
    /\ lastApplied.overtaken
    /\ lastApplied.id = 1
    /\ savedContents = <<Item1>>

\* C10: when a generation response sets the content the displayed topic is
\* the topic sent in that request, and when a history item was loaded while
\* the request was in flight its content is still displayed after the request
\* ends.
C10_TopicContentCoherent ==
    [][\A p \in posts :
          /\ \A data \in PostBodies :
                PostSucceeds(p, data) => topic' = p.topic
          /\ (p.selected /\ p \notin posts' /\ posts' \subseteq posts)
                => content' = content]_vars

=============================================================================
